---- MODULE Spec2Model ----
(***************************************************************************)
(* The raster editor of src/components/DrawingCanvas.tsx as a state        *)
(* machine: the off-screen drawing canvas and its 2d context, the undo     *)
(* history, the pointer dispatcher (startInteraction / onInteraction /     *)
(* finishInteraction), the viewport transform and the placed object.       *)
(*                                                                         *)
(* The drawing canvas is observed at a finite set of sample pixels         *)
(* (Samples); strokes are one pixel wide.  A nullable value of the code is *)
(* a set with at most one element ({} is null).  Every handler is one      *)
(* atomic action followed by the re-render React performs before the next  *)
(* event is dispatched.                                                    *)
(***************************************************************************)
EXTENDS Integers, Sequences, FiniteSets, TLC

(***************************************************************************)
(* Bounds of the exploration.                                              *)
(***************************************************************************)
\* Entries the history may hold when a draw gesture starts.
MaxHistory == 2

\* Widest object a resize of SpecObjects and SpecList may produce.
MaxObjectWidth == 60
\* Zoom, wheel and pan steps of SpecViewport that change the transform of one
\* mounted canvas; a reset may follow them.
MaxViewOps == 2
MaxPreviewOps == 1
MaxTriggers == 2
\* Generation requests of a session: iterations in the design history and calls
\* of the service that have not settled.
MaxIterations == 2

(***************************************************************************)
(* Program constants.                                                      *)
(***************************************************************************)
HANDLE_SIZE == 10

\* Natural width of the loaded image and width of the visible canvas.
NaturalWidth == 160
CanvasWidth == 160
\* Natural height of a source image.
NaturalHeight(url) == IF url = "upload.png" THEN 120 ELSE 90
\* Width of a canvas element that has not been sized yet.
DefaultCanvasWidth == 300

Pt(px, py) == [x |-> px, y |-> py]

\* Mouse positions (relative to the canvas) that the pointer events carry.
ScreenPts == {Pt(36, 18), Pt(66, 58), Pt(90, 90)}

\* The pixels of the drawing canvas that the model observes.
Samples == {Pt(36, 18), Pt(66, 58), Pt(90, 90)}

Modes == {"BRUSH", "ERASER", "LINE", "RECTANGLE", "CIRCLE"}
ShapeModes == {"LINE", "RECTANGLE", "CIRCLE"}
Colors == {"red"}
Transparent == "none"

\* A cleared drawing canvas: every pixel transparent.
Blank == [s \in Samples |-> Transparent]

NoInteraction == [type |-> "null", startX |-> 0, startY |-> 0]

\* The pictures a user may upload as an object, with their pixel sizes.
Pictures == {"square.png", "wide.png"}
PictureWidth(url) == IF url = "wide.png" THEN 128 ELSE 64
PictureHeight(url) == 64

\* The object handleObjectUpload places: x = y = 50, a quarter of the canvas
\* width wide, height = width / (img.width / img.height).
DefaultObject(url) ==
    [imageUrl |-> url, x |-> 50, y |-> 50,
     width |-> CanvasWidth \div 4,
     height |-> ((CanvasWidth \div 4) * PictureHeight(url)) \div PictureWidth(url)]

VARIABLES
    baseImage,       \* TRUE once the base image has loaded
    surface,         \* pixels of drawingCanvasRef.current
    ctx,             \* state of its 2d context: path, composite op, stroke style
    history,         \* ImageData[] snapshots
    isInteracting, interaction, startPos, currentPos,
    transform, isPanning, panStart,
    options,         \* DrawingOptions (prop)
    uploadedObject,  \* prop, owned by App
    gestureStart,    \* {surface when the current / last draw gesture began}
    strokes, undos, mixed,  \* completed draw gestures / undos since load or clear
    clearedAt,       \* after a clear and until the next pointer-down: "draw" when
                     \* a draw gesture was in progress at the clear, else "idle"
    uploadedObjects, \* prop of the canvas that takes a list of objects
    activeObjectId,  \* its selected object
    activeImageUrl,  \* App: the image shown, imageSrc and key of the canvas
    viewOps,         \* steps that changed the transform since the canvas mounted
    lastViewOp,      \* the last step that changed the transform
    pendingUploads,  \* App: object uploads whose file read or decode is in flight
    objectImage,     \* the decoded image of the placed object: {} or {url}
    objectLoads,     \* urls of object images the canvas is decoding
    imageLoads,      \* base-image loads in flight, of this canvas and of unmounted ones
    baseImageSrc,    \* the source of baseImage: {} or {url}
    drawingCanvasSize,  \* width and height of drawingCanvasRef.current: {} or {size}
    discarded,       \* the last base-image load to complete was of an unmounted canvas
    undoTrigger, clearTrigger,  \* App: counters the toolbar increments
    undoCalls, clearCalls,      \* calls of handleUndo / handleClear so far
    isLoading,       \* App: a request to the generation service is in flight
    error,           \* App: the error shown, or "none"
    service,         \* the call of visualizeDesign under study
    designHistory,   \* App: DesignIteration[]
    calls            \* App: calls of visualizeDesign that have not settled

vars == <<baseImage, surface, ctx, history, isInteracting, interaction, startPos,
          currentPos, transform, isPanning, panStart, options, uploadedObject,
          gestureStart, strokes, undos, mixed, clearedAt, uploadedObjects,
          activeObjectId, activeImageUrl, viewOps, lastViewOp, pendingUploads,
          objectImage, objectLoads, imageLoads, baseImageSrc, drawingCanvasSize,
          discarded, undoTrigger, clearTrigger, undoCalls, clearCalls, isLoading, error,
          service, designHistory, calls>>

canvasVars == <<baseImage, surface, ctx, history>>
pointerVars == <<isInteracting, interaction, startPos, currentPos, isPanning, panStart>>
ghostVars == <<gestureStart, strokes, undos, mixed, clearedAt>>
listVars == <<uploadedObjects, activeObjectId>>
viewVars == <<activeImageUrl, viewOps, lastViewOp>>
imageLoadVars == <<imageLoads, baseImageSrc, drawingCanvasSize, discarded>>
loadVars == <<pendingUploads, objectImage, objectLoads, imageLoadVars>>
triggerVars == <<undoTrigger, clearTrigger, undoCalls, clearCalls>>
generateVars == <<isLoading, error>>
sessionVars == <<service, designHistory, calls>>

(***************************************************************************)
(* Numbers of the viewport transform: scale and offsets are fractions      *)
(* n / d in lowest terms with d > 0, so that the zoom factors (1.2,         *)
(* 1 - deltaY * 0.001) multiply and divide without rounding.               *)
(***************************************************************************)
Min(a, b) == IF a < b THEN a ELSE b
Max(a, b) == IF a > b THEN a ELSE b
Abs(a) == IF a < 0 THEN -a ELSE a

RECURSIVE GCD(_, _)
GCD(a, b) == IF b = 0 THEN a ELSE GCD(b, a % b)

Frac(n, d) ==
    LET g == GCD(Abs(n), Abs(d))
        sgn == IF d < 0 THEN -1 ELSE 1
    IN  [n |-> (sgn * n) \div g, d |-> (sgn * d) \div g]

QInt(i) == [n |-> i, d |-> 1]
QAdd(a, b) == Frac(a.n * b.d + b.n * a.d, a.d * b.d)
QSub(a, b) == Frac(a.n * b.d - b.n * a.d, a.d * b.d)
QMul(a, b) == Frac(a.n * b.n, a.d * b.d)
QDiv(a, b) == Frac(a.n * b.d, a.d * b.n)
QLess(a, b) == a.n * b.d < b.n * a.d
QMin(a, b) == IF QLess(b, a) THEN b ELSE a
QMax(a, b) == IF QLess(a, b) THEN b ELSE a
\* The pixel a coordinate falls into.
QFloor(a) == a.n \div a.d

MIN_ZOOM == Frac(1, 4)
MAX_ZOOM == QInt(4)

\* useState({ scale: 1, offsetX: 0, offsetY: 0 })
InitialTransform == [scale |-> QInt(1), offsetX |-> QInt(0), offsetY |-> QInt(0)]

(***************************************************************************)
(* Geometry of the canvas path operations, restricted to the samples.      *)
(***************************************************************************)

Between(v, a, b) == Min(a, b) <= v /\ v <= Max(a, b)

Dist2(a, b) == (a.x - b.x) * (a.x - b.x) + (a.y - b.y) * (a.y - b.y)

\* Largest n with n * n <= v (Math.sqrt, rounded down to a pixel).
ISqrt(v) == CHOOSE n \in 0..v : n * n <= v /\ (n + 1) * (n + 1) > v

\* Samples on the segment from a to b. A zero-length segment is pruned
\* before stroking and covers nothing.
SegCover(a, b) ==
    IF a = b THEN {}
    ELSE {s \in Samples :
            /\ (b.x - a.x) * (s.y - a.y) = (b.y - a.y) * (s.x - a.x)
            /\ Between(s.x, a.x, b.x)
            /\ Between(s.y, a.y, b.y)}

\* Samples on the outline of rect(a.x, a.y, b.x - a.x, b.y - a.y).
RectCover(a, b) ==
    IF a = b THEN {}
    ELSE {s \in Samples :
            \/ s.x \in {a.x, b.x} /\ Between(s.y, a.y, b.y)
            \/ s.y \in {a.y, b.y} /\ Between(s.x, a.x, b.x)}

\* Samples on the circle arc(c.x, c.y, sqrt(r2), 0, 2 * PI).
CircleCover(c, r2) ==
    IF r2 = 0 THEN {} ELSE {s \in Samples : Dist2(s, c) = r2}

(***************************************************************************)
(* The 2d context of the drawing canvas: the samples the current path      *)
(* covers, its current point, globalCompositeOperation and strokeStyle.    *)
(***************************************************************************)
NewContext == [cover |-> {}, cur |-> {}, erase |-> FALSE, color |-> "black"]

BeginPath(c) == [c EXCEPT !.cover = {}, !.cur = {}]

MoveTo(c, p) == [c EXCEPT !.cur = {p}]

\* lineTo on an empty path only sets the current point.
LineTo(c, p) ==
    IF c.cur = {} THEN [c EXCEPT !.cur = {p}]
    ELSE [c EXCEPT !.cover = @ \cup SegCover(CHOOSE q \in c.cur : TRUE, p),
                   !.cur = {p}]

RectPath(c, a, b) == [c EXCEPT !.cover = @ \cup RectCover(a, b), !.cur = {a}]

ArcPath(c, a, r2) ==
    [c EXCEPT !.cover = @ \cup CircleCover(a, r2),
              !.cur = {Pt(a.x + ISqrt(r2), a.y)}]

\* stroke(): source-over paints the path in strokeStyle, destination-out
\* makes the pixels under the path transparent.
Stroke(surf, c) ==
    [s \in Samples |->
        IF s \in c.cover
        THEN (IF c.erase THEN Transparent ELSE c.color)
        ELSE surf[s]]

(***************************************************************************)
(* Coordinates and hit tests.                                              *)
(***************************************************************************)
\* canvas.width: the container width once the image has loaded, the
\* default width of a canvas element before.
CanvasW == IF baseImage THEN CanvasWidth ELSE DefaultCanvasWidth

\* imageScaleX = canvas.width / (baseImage?.naturalWidth || canvas.width),
\* as the pair numerator, denominator.
ImageScaleNum == CanvasW
ImageScaleDen == IF baseImage THEN NaturalWidth ELSE CanvasW

\* canvasX / imageScaleX with canvasX = (mouseX - offsetX) / scale, as the
\* pixel of the image it falls into: the quotient of
\* (mv - off) * ImageScaleDen by scale * ImageScaleNum, rounded down.
Coord(mv, off) ==
    ((mv * off.d - off.n) * transform.scale.d * ImageScaleDen)
        \div (off.d * transform.scale.n * ImageScaleNum)

GetTransformedCoords(m) ==
    Pt(Coord(m.x, transform.offsetX), Coord(m.y, transform.offsetY))

\* The same coordinate without the rounding to a pixel, for a ratio
\* imageScale of the width of the visible canvas to that of the image.
ImageSpaceCoord(mv, off, scale, imageScale) ==
    QDiv(QDiv(QSub(QInt(mv), off), scale), imageScale)

\* A rendering that scales the offset too.
ScreenSpaceCoordOffsetFirst(v, off, scale, imageScale) ==
    QMul(QAdd(QMul(v, imageScale), off), scale)

\* redraw: translate(offset), scale(scale), then the image drawn at the size
\* of the visible canvas. Where the image coordinate v appears on the screen.
ScreenSpaceCoord(v, off, scale, imageScale) ==
    QAdd(QMul(QMul(v, imageScale), scale), off)

\* Ratios of the width of the visible canvas to the natural width.
ImageScales == {Frac(1, 1), Frac(1, 2), Frac(5, 4), Frac(3, 5)}

Obj == CHOOSE o \in uploadedObject : TRUE

\* handleSize = HANDLE_SIZE / transform.scale / (canvas.width || 1 / ...):
\* the division binds tighter than ||, and canvas.width is not zero.
\* -handleSize < d < handleSize, all sides multiplied by scale * canvas.width.
WithinHandle(d) ==
    /\ d * transform.scale.n * CanvasW < HANDLE_SIZE * transform.scale.d
    /\ d * transform.scale.n * CanvasW > -(HANDLE_SIZE * transform.scale.d)

HitsHandle(pos) ==
    /\ uploadedObject # {}
    /\ WithinHandle(pos.x - (Obj.x + Obj.width))
    /\ WithinHandle(pos.y - (Obj.y + Obj.height))

HitsBox(pos) ==
    /\ uploadedObject # {}
    /\ pos.x > Obj.x /\ pos.x < Obj.x + Obj.width
    /\ pos.y > Obj.y /\ pos.y < Obj.y + Obj.height

DrawActive == isInteracting /\ interaction.type = "draw"

(***************************************************************************)
(* Initial state: the component has mounted, the image has not loaded.     *)
(***************************************************************************)
Init ==
    /\ baseImage = FALSE
    /\ surface = Blank
    /\ ctx = NewContext
    /\ history = <<>>
    /\ isInteracting = FALSE
    /\ interaction = NoInteraction
    /\ startPos = {}
    /\ currentPos = {}
    /\ transform = InitialTransform
    /\ isPanning = FALSE
    /\ panStart = Pt(0, 0)
    /\ options = [mode |-> "BRUSH", color |-> "red"]
    /\ uploadedObject = {}
    /\ gestureStart = {}
    /\ strokes = 0
    /\ undos = 0
    /\ mixed = FALSE
    /\ clearedAt = "no"
    /\ uploadedObjects = <<>>
    /\ activeObjectId = {}
    /\ activeImageUrl = "upload.png"
    /\ viewOps = 0
    /\ lastViewOp = "none"
    /\ pendingUploads = {}
    /\ objectImage = {}
    /\ objectLoads = {}
    /\ imageLoads = {[src |-> "upload.png", live |-> TRUE]}
    /\ baseImageSrc = {}
    /\ drawingCanvasSize = {}
    /\ discarded = FALSE
    /\ undoTrigger = 0
    /\ clearTrigger = 0
    /\ undoCalls = 0
    /\ clearCalls = 0
    /\ isLoading = FALSE
    /\ error = "none"
    /\ service = [phase |-> "idle", requests |-> 0, replies |-> <<>>,
                  results |-> <<>>, message |-> "none"]
    /\ designHistory = <<>>
    /\ calls = <<>>

(***************************************************************************)
(* img.onload of a base image. The load belongs to the canvas that started *)
(* it: when that canvas is still mounted (live) its drawing canvas is      *)
(* created blank at the natural size of the image, the history is reset    *)
(* and baseImage is set. When it has been unmounted, canvasRef.current is  *)
(* null and setBaseImage reaches no component, so nothing changes.         *)
(***************************************************************************)
\* A drawing canvas that is created and not sized: 300 x 150.
DrawingCanvasUnsized(url) == [width |-> 300, height |-> 150]

\* offscreenCanvas.width = img.naturalWidth; .height = img.naturalHeight
DrawingCanvasSize(url) == [width |-> NaturalWidth, height |-> NaturalHeight(url)]

ImageLoadDone(l) ==
    /\ l \in imageLoads
    /\ imageLoads' = imageLoads \ {l}
    /\ discarded' = ~l.live
    /\ IF l.live
       THEN /\ baseImage' = TRUE
            /\ baseImageSrc' = {l.src}
            /\ drawingCanvasSize' = {DrawingCanvasSize(l.src)}
            /\ surface' = Blank
            /\ ctx' = NewContext
            /\ history' = <<>>
            /\ gestureStart' = {}
            /\ strokes' = 0
            /\ undos' = 0
            /\ mixed' = FALSE
            /\ clearedAt' = "no"
       ELSE UNCHANGED <<canvasVars, ghostVars, baseImageSrc, drawingCanvasSize>>
    /\ UNCHANGED <<pointerVars, transform, options, uploadedObject>>
    /\ UNCHANGED <<listVars, viewVars, pendingUploads, objectImage, objectLoads,
                   triggerVars, generateVars, sessionVars>>

\* The load of the image the mounted canvas shows.
ImageLoaded == ImageLoadDone([src |-> activeImageUrl, live |-> TRUE])

(***************************************************************************)
(* saveToHistory.                                                          *)
(***************************************************************************)
SaveToHistory(h, surf) == IF baseImage THEN Append(h, surf) ELSE h

(***************************************************************************)
(* handleUndo and handleClear.                                             *)
(***************************************************************************)
UndoHistory(h) == SubSeq(h, 1, Len(h) - 1)

\* handleUndo that puts back the entry it pops.
UndoSurfaceRestoresPopped(h, surf) ==
    IF ~baseImage THEN surf
    ELSE IF h # <<>> THEN h[Len(h)]
    ELSE Blank

\* handleUndo without the clearRect before putImageData.
UndoSurfaceWithoutClear(h, surf) ==
    IF baseImage /\ UndoHistory(h) # <<>> THEN UndoHistory(h)[Len(UndoHistory(h))]
    ELSE surf

UndoSurface(h, surf) ==
    IF ~baseImage THEN surf
    ELSE IF UndoHistory(h) # <<>> THEN UndoHistory(h)[Len(UndoHistory(h))]
    ELSE Blank

\* What handleUndo does to the component and its surroundings.
UndoOperation ==
    /\ surface' = UndoSurface(history, surface)
    /\ history' = UndoHistory(history)
    /\ undos' = IF ~mixed /\ baseImage /\ undos <= strokes THEN undos + 1 ELSE undos
    /\ gestureStart' = {}
    /\ UNCHANGED <<baseImage, ctx, pointerVars, transform, options, uploadedObject,
                   strokes, mixed, clearedAt>>
    /\ UNCHANGED <<listVars, viewVars, loadVars, generateVars, sessionVars>>

HandleUndo == UndoOperation /\ UNCHANGED triggerVars

\* onUndo of the toolbar increments undoTrigger; the trigger effect of the
\* canvas runs after the render and calls handleUndo.
OnUndo ==
    /\ undoTrigger < MaxTriggers
    /\ undoTrigger' = undoTrigger + 1
    /\ undoCalls' = undoCalls + 1
    /\ UndoOperation
    /\ UNCHANGED <<clearTrigger, clearCalls>>

ClearSurface(surf) == IF baseImage THEN Blank ELSE surf

\* What handleClear does to the component and its surroundings.
ClearOperation ==
    /\ surface' = ClearSurface(surface)
    /\ history' = <<>>
    /\ strokes' = 0
    /\ undos' = 0
    /\ mixed' = FALSE
    /\ gestureStart' = {}
    /\ clearedAt' = IF ~baseImage THEN "no" ELSE IF DrawActive THEN "draw" ELSE "idle"
    /\ UNCHANGED <<baseImage, ctx, pointerVars, transform, options, uploadedObject>>
    /\ UNCHANGED <<listVars, viewVars, loadVars, generateVars, sessionVars>>

HandleClear == ClearOperation /\ UNCHANGED triggerVars

\* onClear of the toolbar increments clearTrigger; the trigger effect of the
\* canvas runs after the render and calls handleClear.
OnClear ==
    /\ clearTrigger < MaxTriggers
    /\ clearTrigger' = clearTrigger + 1
    /\ clearCalls' = clearCalls + 1
    /\ ClearOperation
    /\ UNCHANGED <<undoTrigger, undoCalls>>

(***************************************************************************)
(* startInteraction.                                                       *)
(***************************************************************************)
\* startInteraction that tests the object before the button.
ClassifyObjectFirst(b, pos) ==
    IF HitsHandle(pos) THEN "resize"
    ELSE IF HitsBox(pos) THEN "move"
    ELSE IF b = 2 THEN "pan"
    ELSE "draw"

\* The outcome of a pointer-down with button b at image position pos.
Classify(b, pos) ==
    IF b = 2 THEN "pan"
    ELSE IF HitsHandle(pos) THEN "resize"
    ELSE IF HitsBox(pos) THEN "move"
    ELSE "draw"

\* The context after a pointer-down that starts a BRUSH or ERASER stroke.
StartStroke(c, pos) ==
    MoveTo(BeginPath([c EXCEPT !.color = options.color,
                               !.erase = (options.mode = "ERASER")]), pos)

StartInteraction(b, m) ==
    LET pos == GetTransformedCoords(m)
        kind == Classify(b, pos)
    IN  /\ clearedAt' = "no"
        /\ \/ /\ kind = "pan"
              /\ isPanning' = TRUE
              /\ panStart' = m
              /\ UNCHANGED <<isInteracting, interaction, startPos, currentPos, ctx,
                             gestureStart>>
           \/ /\ kind = "resize"
              /\ interaction' = [type |-> "resize", startX |-> 0, startY |-> 0]
              /\ isInteracting' = TRUE
              /\ gestureStart' = IF DrawActive THEN {} ELSE gestureStart
              /\ UNCHANGED <<startPos, currentPos, isPanning, panStart, ctx>>
           \/ /\ kind = "move"
              /\ interaction' = [type |-> "move", startX |-> pos.x - Obj.x,
                                 startY |-> pos.y - Obj.y]
              /\ isInteracting' = TRUE
              /\ gestureStart' = IF DrawActive THEN {} ELSE gestureStart
              /\ UNCHANGED <<startPos, currentPos, isPanning, panStart, ctx>>
           \/ /\ kind = "draw"
              /\ Len(history) < MaxHistory
              /\ interaction' = [type |-> "draw", startX |-> 0, startY |-> 0]
              /\ isInteracting' = TRUE
              /\ startPos' = {pos}
              /\ currentPos' = {pos}
              /\ ctx' = IF baseImage /\ options.mode \in {"BRUSH", "ERASER"}
                        THEN StartStroke(ctx, pos)
                        ELSE ctx
              /\ gestureStart' = IF DrawActive THEN gestureStart ELSE {surface}
              /\ UNCHANGED <<isPanning, panStart>>
        /\ UNCHANGED <<baseImage, surface, history, transform, options,
                       uploadedObject, strokes, undos, mixed>>
        /\ UNCHANGED <<listVars, viewVars, loadVars, triggerVars, generateVars, sessionVars>>

(***************************************************************************)
(* onInteraction.                                                          *)
(***************************************************************************)
Pan(t, m) ==
    [t EXCEPT !.offsetX = QAdd(@, QInt(m.x - panStart.x)),
              !.offsetY = QAdd(@, QInt(m.y - panStart.y))]

\* onInteraction that puts the origin of a moved object under the pointer.
MoveObjectToPointer(o, pos) == [o EXCEPT !.x = pos.x, !.y = pos.y]

MoveObject(o, pos) ==
    [o EXCEPT !.x = pos.x - interaction.startX, !.y = pos.y - interaction.startY]

\* onInteraction that resizes the width only.
ResizeObjectWidthOnly(o, pos) ==
    [o EXCEPT !.width = Max(pos.x - o.x, HANDLE_SIZE * 2)]

\* onInteraction that resizes without the minimum width.
ResizeObjectUnclamped(o, pos) ==
    LET newWidth == pos.x - o.x
    IN  [o EXCEPT !.width = newWidth, !.height = (newWidth * o.height) \div o.width]

\* newWidth * aspectRatio with aspectRatio = height / width: the division is
\* exact for the pictures and pointer positions of the model.
ResizeObject(o, pos) ==
    LET newWidth == Max(pos.x - o.x, HANDLE_SIZE * 2)
    IN  [o EXCEPT !.width = newWidth, !.height = (newWidth * o.height) \div o.width]

OnInteraction(m) ==
    LET pos == GetTransformedCoords(m)
    IN  /\ IF isPanning
           THEN /\ transform' = Pan(transform, m)
                /\ panStart' = m
                /\ UNCHANGED <<currentPos, uploadedObject, ctx, surface>>
           ELSE IF ~isInteracting \/ interaction.type = "null"
           THEN UNCHANGED <<transform, panStart, currentPos, uploadedObject, ctx,
                            surface>>
           ELSE /\ currentPos' = {pos}
                /\ UNCHANGED <<transform, panStart>>
                /\ IF interaction.type = "move" /\ uploadedObject # {}
                   THEN /\ uploadedObject' = {MoveObject(Obj, pos)}
                        /\ UNCHANGED <<ctx, surface>>
                   ELSE IF interaction.type = "resize" /\ uploadedObject # {}
                   THEN /\ uploadedObject' = {ResizeObject(Obj, pos)}
                        /\ UNCHANGED <<ctx, surface>>
                   ELSE IF /\ interaction.type = "draw"
                           /\ options.mode \in {"BRUSH", "ERASER"}
                           /\ baseImage
                   THEN /\ ctx' = LineTo(ctx, pos)
                        /\ surface' = Stroke(surface, ctx')
                        /\ UNCHANGED uploadedObject
                   ELSE UNCHANGED <<uploadedObject, ctx, surface>>
        /\ viewOps' = IF transform' # transform THEN viewOps + 1 ELSE viewOps
        /\ lastViewOp' = IF transform' # transform THEN "pan" ELSE lastViewOp
        /\ UNCHANGED <<baseImage, history, isInteracting, interaction, startPos,
                       isPanning, options, ghostVars>>
        /\ UNCHANGED <<listVars, activeImageUrl, loadVars, triggerVars, generateVars, sessionVars>>

\* Two pointer-moves of a pan handled before the component renders again:
\* both handlers are those of the last render and read its panStart, and the
\* updaters of setTransform are applied one after the other.
PanMovesBeforeRender(m1, m2) ==
    /\ isPanning
    /\ transform' = Pan(Pan(transform, m1), m2)
    /\ panStart' = m2
    /\ viewOps' = IF transform' # transform THEN viewOps + 1 ELSE viewOps
    /\ lastViewOp' = IF transform' # transform THEN "pan" ELSE lastViewOp
    /\ UNCHANGED <<canvasVars, isInteracting, interaction, startPos, currentPos,
                   isPanning, options, uploadedObject, ghostVars>>
    /\ UNCHANGED <<listVars, activeImageUrl, loadVars, triggerVars, generateVars,
                   sessionVars>>

(***************************************************************************)
(* finishInteraction (onMouseUp and onMouseLeave).                         *)
(***************************************************************************)
\* The path of the shape committed at the end of a draw gesture.
ShapePath(c, a, b) ==
    CASE options.mode = "LINE" -> LineTo(MoveTo(c, a), b)
      [] options.mode = "RECTANGLE" -> RectPath(c, a, b)
      [] options.mode = "CIRCLE" -> ArcPath(c, a, Dist2(a, b))
      [] OTHER -> c

\* The context in which the end of a draw gesture strokes the shape.
FinishContext(c) ==
    IF baseImage /\ startPos # {} /\ currentPos # {}
    THEN ShapePath(BeginPath([c EXCEPT !.color = options.color, !.erase = FALSE]),
                   CHOOSE a \in startPos : TRUE, CHOOSE b \in currentPos : TRUE)
    ELSE c

\* The context a finished draw gesture leaves behind. The path, stroke style
\* and composite operation it holds are never read again: startInteraction
\* (BRUSH, ERASER) and finishInteraction set all three before they stroke, and
\* the options do not change during a draw gesture (SetOptions).
LeftContext(c) == NewContext

\* The drawing canvas after the end of a draw gesture.
FinishSurface(surf, c) ==
    IF baseImage /\ startPos # {} /\ currentPos # {} /\ options.mode \in ShapeModes
    THEN Stroke(surf, FinishContext(c))
    ELSE surf

\* finishInteraction that saves the shapes only.
FinishHistoryShapesOnly(h, surf, c) ==
    IF options.mode \in ShapeModes THEN SaveToHistory(h, FinishSurface(surf, c)) ELSE h

\* finishInteraction that saves before it strokes the shape.
FinishHistoryBeforeCommit(h, surf, c) == SaveToHistory(h, surf)

\* The history after the end of a draw gesture.
FinishHistory(h, surf, c) == SaveToHistory(h, FinishSurface(surf, c))

\* finishInteraction ends a pan and nothing else while panning.
FinishEndsGesture == ~isPanning /\ isInteracting

\* finishInteraction that commits a stroke unless an object gesture ends.
FinishOutcomeWithoutIdleReturn ==
    IF isPanning THEN "pan"
    ELSE IF interaction.type \in {"move", "resize"} THEN "object"
    ELSE "draw"

\* finishInteraction that saves to the history at the end of any gesture.
FinishOutcomeSavesAnyGesture ==
    IF isPanning THEN "pan"
    ELSE IF ~FinishEndsGesture THEN "none"
    ELSE "draw"

\* What a pointer-up or pointer-leave ends.
FinishOutcome ==
    IF isPanning THEN "pan"
    ELSE IF ~FinishEndsGesture THEN "none"
    ELSE IF interaction.type = "draw" THEN "draw"
    ELSE "object"

FinishInteraction ==
    /\ IF FinishOutcome = "pan"
       THEN /\ isPanning' = FALSE
            /\ UNCHANGED <<isInteracting, interaction, startPos, currentPos, ctx,
                           surface, history, strokes, undos, mixed>>
       ELSE IF FinishOutcome = "none"
       THEN UNCHANGED <<isPanning, isInteracting, interaction, startPos, currentPos,
                        ctx, surface, history, strokes, undos, mixed>>
       ELSE /\ IF FinishOutcome = "draw"
               THEN /\ ctx' = LeftContext(FinishContext(ctx))
                    /\ surface' = FinishSurface(surface, ctx)
                    /\ history' = FinishHistory(history, surface, ctx)
                    /\ IF ~baseImage
                       THEN UNCHANGED <<strokes, undos, mixed>>
                       ELSE IF mixed \/ undos > 0
                       THEN strokes' = 0 /\ undos' = 0 /\ mixed' = TRUE
                       ELSE strokes' = strokes + 1 /\ UNCHANGED <<undos, mixed>>
               ELSE UNCHANGED <<ctx, surface, history, strokes, undos, mixed>>
            /\ isInteracting' = FALSE
            /\ interaction' = NoInteraction
            /\ startPos' = {}
            /\ currentPos' = {}
            /\ UNCHANGED isPanning
    /\ UNCHANGED <<baseImage, transform, panStart, options, uploadedObject,
                   gestureStart, clearedAt>>
    /\ UNCHANGED <<listVars, viewVars, loadVars, triggerVars, generateVars, sessionVars>>

PointerUp == FinishInteraction

PointerLeave == FinishInteraction

(***************************************************************************)
(* Props changed by App: toolbar options and the placed object.            *)
(***************************************************************************)
\* The toolbar is operated between draw gestures.
SetOptions(mode, color) ==
    /\ ~DrawActive
    /\ options # [mode |-> mode, color |-> color]
    /\ options' = [mode |-> mode, color |-> color]
    /\ UNCHANGED <<canvasVars, pointerVars, transform, uploadedObject, ghostVars>>
    /\ UNCHANGED <<listVars, viewVars, loadVars, triggerVars, generateVars, sessionVars>>

\* An upload whose file read and image decodes take no time: the object is
\* placed and its image is ready before the next event.
ObjectUpload(url) ==
    /\ uploadedObject = {}
    /\ uploadedObject' = {DefaultObject(url)}
    /\ objectImage' = {url}
    /\ UNCHANGED <<canvasVars, pointerVars, transform, options, ghostVars>>
    /\ UNCHANGED <<listVars, viewVars, pendingUploads, objectLoads, imageLoadVars,
                   triggerVars, generateVars, sessionVars>>

\* handleObjectRemove; the object image effect of the canvas then runs with
\* no imageUrl and sets objectImage to null.
ObjectRemove ==
    /\ uploadedObject # {}
    /\ uploadedObject' = {}
    /\ objectImage' = {}
    /\ UNCHANGED <<canvasVars, pointerVars, transform, options, ghostVars>>
    /\ UNCHANGED <<listVars, viewVars, pendingUploads, objectLoads, imageLoadVars,
                   triggerVars, generateVars, sessionVars>>

(***************************************************************************)
(* handleObjectUpload in its steps: the file read and the decode of App    *)
(* are in flight from the start of the upload until img.onload places the  *)
(* object; the canvas then decodes the image again for drawing (object     *)
(* image effect), and installs it when that load completes.                *)
(***************************************************************************)
\* The object img.onload of handleObjectUpload places: a quarter of the
\* current canvas width wide, the height rounded down to a pixel.
PlacedObject(url) ==
    [imageUrl |-> url, x |-> 50, y |-> 50,
     width |-> CanvasW \div 4,
     height |-> ((CanvasW \div 4) * PictureHeight(url)) \div PictureWidth(url)]

\* An upload is stale once the active image has been replaced under it.
ObjectUploadStart(url) ==
    /\ pendingUploads' = pendingUploads \cup {[url |-> url, stale |-> FALSE]}
    /\ UNCHANGED <<canvasVars, pointerVars, transform, options, uploadedObject,
                   ghostVars, listVars, viewVars, objectImage, objectLoads,
                   imageLoadVars, triggerVars,
                   generateVars, sessionVars>>

\* The object image effect runs when uploadedObject?.imageUrl has changed
\* and starts a load of the new url; objectImage stays until it completes.
ObjectUploadDone(p) ==
    /\ p \in pendingUploads
    /\ pendingUploads' = pendingUploads \ {p}
    /\ uploadedObject' = {PlacedObject(p.url)}
    /\ objectLoads' = IF \A o \in uploadedObject : o.imageUrl # p.url
                      THEN objectLoads \cup {p.url}
                      ELSE objectLoads
    /\ UNCHANGED <<canvasVars, pointerVars, transform, options, ghostVars,
                   listVars, viewVars, objectImage, imageLoadVars, triggerVars,
                   generateVars, sessionVars>>

\* img.onload of the object image effect: setObjectImage(img).
ObjectImageLoaded(url) ==
    /\ url \in objectLoads
    /\ objectLoads' = objectLoads \ {url}
    /\ objectImage' = {url}
    /\ UNCHANGED <<canvasVars, pointerVars, transform, options, uploadedObject,
                   ghostVars, listVars, viewVars, pendingUploads, imageLoadVars,
                   triggerVars, generateVars, sessionVars>>

\* The file read or the decode of handleObjectUpload fails: neither has an
\* error handler, so nothing is placed.
ObjectUploadFailed(p) ==
    /\ p \in pendingUploads
    /\ pendingUploads' = pendingUploads \ {p}
    /\ UNCHANGED <<canvasVars, pointerVars, transform, options, uploadedObject,
                   ghostVars, listVars, viewVars, objectImage, objectLoads,
                   imageLoadVars, triggerVars, generateVars, sessionVars>>

\* The decode of the object image effect fails: img.onload is never called
\* and there is no onerror, so objectImage stays what it was.
ObjectImageFailed(url) ==
    /\ url \in objectLoads
    /\ objectLoads' = objectLoads \ {url}
    /\ UNCHANGED <<canvasVars, pointerVars, transform, options, uploadedObject,
                   ghostVars, listVars, viewVars, pendingUploads, objectImage,
                   imageLoadVars, triggerVars, generateVars, sessionVars>>

(***************************************************************************)
(* The zoom controls (zoomIn, zoomOut, resetZoom of the imperative handle) *)
(* and the wheel listener.                                                 *)
(***************************************************************************)
\* The factor of one zoom button step, 1.2.
ZoomStep == Frac(6, 5)

ZoomInTransform(t) == [t EXCEPT !.scale = QMin(QMul(t.scale, ZoomStep), MAX_ZOOM)]

ZoomOutTransform(t) == [t EXCEPT !.scale = QMax(QDiv(t.scale, ZoomStep), MIN_ZOOM)]

\* resetZoom that resets the scale and keeps the offsets.
ResetZoomScaleOnly(t) == [t EXCEPT !.scale = QInt(1)]

ResetZoomTransform(t) == [scale |-> QInt(1), offsetX |-> QInt(0), offsetY |-> QInt(0)]

\* A change of the transform by a control or the wheel, counted in viewOps.
SetTransform(t, op) ==
    /\ transform' = t
    /\ viewOps' = IF t # transform THEN viewOps + 1 ELSE viewOps
    /\ lastViewOp' = IF t # transform THEN op ELSE lastViewOp
    /\ UNCHANGED <<canvasVars, pointerVars, options, uploadedObject, ghostVars,
                   listVars, activeImageUrl, loadVars, triggerVars, generateVars, sessionVars>>

ZoomIn == SetTransform(ZoomInTransform(transform), "zoomIn")

ZoomOut == SetTransform(ZoomOutTransform(transform), "zoomOut")

ResetZoom == SetTransform(ResetZoomTransform(transform), "reset")

\* zoom = 1 - e.deltaY * 0.001
WheelZoom(deltaY) == Frac(1000 - deltaY, 1000)

\* The new scale of a wheel step without the upper limit.
WheelScaleWithoutMax(scale, zoom) == QMax(MIN_ZOOM, QMul(scale, zoom))

\* Math.max(MIN_ZOOM, Math.min(prev.scale * zoom, MAX_ZOOM))
WheelScale(scale, zoom) == QMax(MIN_ZOOM, QMin(QMul(scale, zoom), MAX_ZOOM))

\* A wheel step that keeps the offset.
WheelOffsetKept(mouse, offset, scale, newScale) == offset

\* world = (mouse - prev.offset) / prev.scale; newOffset = mouse - world * newScale
WheelOffset(mouse, offset, scale, newScale) ==
    LET world == QDiv(QSub(QInt(mouse), offset), scale)
    IN  QSub(QInt(mouse), QMul(world, newScale))

HandleWheel(m, deltaY) ==
    LET newScale == WheelScale(transform.scale, WheelZoom(deltaY))
    IN  SetTransform([scale |-> newScale,
                      offsetX |-> WheelOffset(m.x, transform.offsetX,
                                              transform.scale, newScale),
                      offsetY |-> WheelOffset(m.y, transform.offsetY,
                                              transform.scale, newScale)],
                     "wheel")

(***************************************************************************)
(* App switches the active image: handleImageSelect, handleGenerate and    *)
(* handleSelectHistoryItem set activeImageUrl and drop the placed object.  *)
(* The canvas is keyed by activeImageUrl, so a new url unmounts it and     *)
(* mounts a new one, whose state is the initial state. The mount starts    *)
(* the load of the new image and runs the trigger effects: handleUndo and  *)
(* handleClear are called when their counter is above zero, on a canvas    *)
(* with an empty history and no drawing canvas, which they leave as it is. *)
(* The loads of the unmounted canvas stay in flight. A canvas that stays   *)
(* mounted runs the image load effect when imageSrc has changed and the    *)
(* object image effect when the object has gone.                           *)
(***************************************************************************)
ImageUrls == {"upload.png", "result.png"}

\* activeImageUrl === null: no canvas is rendered.
NoImage == "null"

\* A canvas without a key, which is never remounted.
KeyNeverChanges(url) == FALSE

\* key={activeImageUrl}
KeyChanges(url) == url # activeImageUrl

\* An unmount after which the loads of the canvas still reach a canvas.
UnmountKeepsLoads(loads) == loads

\* After the unmount canvasRef.current is null and the state setters of the
\* canvas reach no component: its loads are no longer live.
UnmountLoads(loads) == {[l EXCEPT !.live = FALSE] : l \in loads}

ActivateImage(url) ==
    /\ activeImageUrl' = url
    /\ uploadedObject' = {}
    /\ pendingUploads' = {[p EXCEPT !.stale = TRUE] : p \in pendingUploads}
    /\ IF KeyChanges(url)
       THEN /\ baseImage' = FALSE
            /\ baseImageSrc' = {}
            /\ drawingCanvasSize' = {}
            /\ imageLoads' = UnmountLoads(imageLoads) \cup
                    IF url = NoImage THEN {} ELSE {[src |-> url, live |-> TRUE]}
            /\ objectImage' = {}
            /\ objectLoads' = {}
            /\ undoCalls' = IF undoTrigger > 0 /\ url # NoImage
                            THEN undoCalls + 1 ELSE undoCalls
            /\ clearCalls' = IF clearTrigger > 0 /\ url # NoImage
                             THEN clearCalls + 1 ELSE clearCalls
            /\ surface' = Blank
            /\ ctx' = NewContext
            /\ history' = <<>>
            /\ isInteracting' = FALSE
            /\ interaction' = NoInteraction
            /\ startPos' = {}
            /\ currentPos' = {}
            /\ transform' = InitialTransform
            /\ isPanning' = FALSE
            /\ panStart' = Pt(0, 0)
            /\ gestureStart' = {}
            /\ strokes' = 0
            /\ undos' = 0
            /\ mixed' = FALSE
            /\ clearedAt' = "no"
            /\ viewOps' = 0
            /\ lastViewOp' = IF transform' # transform THEN "mount" ELSE lastViewOp
       ELSE /\ imageLoads' = IF url # activeImageUrl
                             THEN imageLoads \cup {[src |-> url, live |-> TRUE]}
                             ELSE imageLoads
            /\ objectImage' = IF uploadedObject # {} THEN {} ELSE objectImage
            /\ UNCHANGED <<canvasVars, pointerVars, transform, ghostVars, viewOps,
                           lastViewOp, baseImageSrc, drawingCanvasSize,
                           objectLoads, undoCalls, clearCalls>>
    /\ UNCHANGED discarded
    /\ UNCHANGED <<listVars, undoTrigger, clearTrigger>>

\* handleImageSelect: the new image starts a session of its own.
HandleImageSelect(url) ==
    /\ ActivateImage(url)
    /\ designHistory' = <<>>
    /\ error' = "none"
    /\ UNCHANGED <<options, isLoading, service, calls>>

\* A handleSelectHistoryItem that keeps the later iterations.
SelectedHistoryKept(h, i) == h

\* prev.slice(0, iterationIndex + 1)
SelectedHistory(h, i) == SubSeq(h, 1, Min(i + 1, Len(h)))

\* designHistory[iterationIndex] and its results[resultIndex] exist; both
\* indices count from 0.
HistoryItemExists(i, r) ==
    /\ i + 1 \in DOMAIN designHistory
    /\ r + 1 \in DOMAIN designHistory[i + 1].results

\* handleSelectHistoryItem(iterationIndex, resultIndex)
HandleSelectHistoryItem(i, r) ==
    IF HistoryItemExists(i, r)
    THEN /\ ActivateImage(designHistory[i + 1].results[r + 1].imageUrl)
         /\ designHistory' = SelectedHistory(designHistory, i)
         /\ UNCHANGED <<options, generateVars, service, calls>>
    ELSE UNCHANGED vars

\* handleReset: back to the state before the first image.
HandleReset ==
    /\ ActivateImage(NoImage)
    /\ designHistory' = <<>>
    /\ isLoading' = FALSE
    /\ error' = "none"
    /\ options' = [mode |-> "BRUSH", color |-> "red"]
    /\ UNCHANGED <<service, calls>>

\* The active image is set to url by handleImageSelect or by
\* handleSelectHistoryItem for a result with that url.
SetActiveImage(url) ==
    \/ HandleImageSelect(url)
    \/ \E i \in 0..(Len(designHistory) - 1) :
        \E r \in 0..(Len(designHistory[i + 1].results) - 1) :
          /\ HistoryItemExists(i, r)
          /\ designHistory[i + 1].results[r + 1].imageUrl = url
          /\ HandleSelectHistoryItem(i, r)

(***************************************************************************)
(* The exports of the imperative handle. A raster is a record of width,    *)
(* height and the pixels at the samples; a pixel names the layer it comes  *)
(* from and the image or colour of that layer. The absent value (null) is  *)
(* the empty set, a data url the set of its raster.                        *)
(***************************************************************************)
BasePixel(src) == [layer |-> "base", of |-> src]
PaintPixel(color) == [layer |-> "paint", of |-> color]
ObjectPixel(url) == [layer |-> "object", of |-> url]
TransparentPixel == [layer |-> "none", of |-> Transparent]

\* The pixel of the drawing canvas as a layer.
SurfacePixel(surf, s) ==
    IF surf[s] = Transparent THEN TransparentPixel ELSE PaintPixel(surf[s])

\* drawImage and fillRect under source-over: the source where it is opaque.
SourceOver(dst, src) == IF src = TransparentPixel THEN dst ELSE src

\* fillRect under source-in: the fill where the destination is opaque, and
\* transparent elsewhere.
SourceIn(dst, fill) == IF dst = TransparentPixel THEN TransparentPixel ELSE fill

\* drawImage(objectImage, x, y, width, height): the pixels it covers.
ObjectCovers(o, s) ==
    /\ o.x <= s.x /\ s.x < o.x + o.width
    /\ o.y <= s.y /\ s.y < o.y + o.height

\* The object layer of the combined export at a sample.
ObjectLayerPixel(s) ==
    IF /\ uploadedObject # {}
       /\ objectImage # {}
       /\ ObjectCovers(Obj, s)
    THEN ObjectPixel(CHOOSE url \in objectImage : TRUE)
    ELSE TransparentPixel

\* An export canvas of the size the image has on the screen.
ExportSizeInViewport(src) ==
    [width |-> (NaturalWidth * transform.scale.n) \div transform.scale.d,
     height |-> (NaturalHeight(src) * transform.scale.n) \div transform.scale.d]

\* The size of the canvas both exports draw on.
ExportSize(src) == [width |-> NaturalWidth, height |-> NaturalHeight(src)]

CombinedPixels ==
    [s \in Samples |->
        SourceOver(SourceOver(BasePixel(CHOOSE src \in baseImageSrc : TRUE),
                              SurfacePixel(surface, s)),
                   ObjectLayerPixel(s))]

GetCombinedDataUrl ==
    IF ~baseImage THEN {}
    ELSE {[size |-> ExportSize(CHOOSE src \in baseImageSrc : TRUE),
           pixels |-> CombinedPixels]}

\* A mask that is produced whenever the drawing canvas has paint.
MaskProducedWhenPainted == baseImage /\ surface # Blank

\* getMaskDataUrl returns null without a base image, without a drawing
\* canvas and with an empty history.
MaskProduced == baseImage /\ drawingCanvasSize # {} /\ Len(history) # 0

\* Black fill, the drawing canvas over it, then a white fill under source-in.
MaskPixels ==
    [s \in Samples |->
        SourceIn(SourceOver(PaintPixel("black"), SurfacePixel(surface, s)),
                 PaintPixel("white"))]

GetMaskDataUrl ==
    IF ~MaskProduced THEN {}
    ELSE {[size |-> ExportSize(CHOOSE src \in baseImageSrc : TRUE),
           pixels |-> MaskPixels]}

HasDrawings == Len(history) > 0

(***************************************************************************)
(* visualizeDesign (geminiService.ts). The call issues two generateContent *)
(* requests at once; each settles on its own with a response or an error.  *)
(* A response is a record of whether it has candidates and of the image    *)
(* and text parts of the first candidate.                                  *)
(***************************************************************************)
numberOfImagesToGenerate == 2

ResultImages == {"result.png", "variant.png"}
ResultTexts == {"a sofa by the window"}

Responses ==
    [kind : {"response"}, candidates : BOOLEAN, image : {{}} \cup {{u} : u \in ResultImages},
     text : {{}} \cup {{t} : t \in ResultTexts}]

\* What a generateContent request settles with.
Throws == [kind |-> "throws"]
Pending == [kind |-> "pending"]
Settlements == Responses \cup {Throws}

\* The null of generateSingleDesign is the empty set.
GenerationResultOf(r) ==
    {[imageUrl |-> CHOOSE u \in r.image : TRUE,
      text |-> IF r.text = {} THEN "No text description was generated."
               ELSE CHOOSE t \in r.text : TRUE]}

\* generateSingleDesign: the error of a request is caught and logged.
GenerateSingleDesign(r) ==
    IF r.kind = "throws" THEN {}
    ELSE IF r.candidates /\ r.image # {} THEN GenerationResultOf(r)
    ELSE {}

\* resultsWithNulls.filter(r => r !== null), in the order of the requests.
RECURSIVE FilterResults(_)
FilterResults(rs) ==
    IF rs = <<>> THEN <<>>
    ELSE IF Head(rs) = {} THEN FilterResults(Tail(rs))
    ELSE <<CHOOSE r \in Head(rs) : TRUE>> \o FilterResults(Tail(rs))

\* A visualizeDesign that returns whatever the filter leaves.
SettleWithoutEmptyCheck(finalResults) ==
    [phase |-> "returned", results |-> finalResults, message |-> "none"]

\* The end of visualizeDesign: it throws when no result is left.
Settle(finalResults) ==
    IF Len(finalResults) = 0
    THEN [phase |-> "failed", results |-> <<>>,
          message |-> "The API did not return any images."]
    ELSE [phase |-> "returned", results |-> finalResults, message |-> "none"]

IdleService ==
    [phase |-> "idle", requests |-> 0, replies |-> <<>>, results |-> <<>>,
     message |-> "none"]

\* A call of visualizeDesign with or without process.env.API_KEY, up to the
\* await of Promise.all.
VisualizeDesign(apiKey) ==
    /\ service.phase # "pending"
    /\ service' =
          IF ~apiKey
          THEN [IdleService EXCEPT !.phase = "failed",
                   !.message = "API_KEY environment variable is not set."]
          ELSE [IdleService EXCEPT !.phase = "pending",
                   !.requests = numberOfImagesToGenerate,
                   !.replies = [i \in 1..numberOfImagesToGenerate |-> Pending]]
    /\ UNCHANGED <<canvasVars, pointerVars, transform, options, uploadedObject,
                   ghostVars, listVars, viewVars, loadVars, triggerVars,
                   generateVars, designHistory, calls>>

\* Request i settles with r.
RequestSettles(i, r) ==
    /\ service.phase = "pending"
    /\ i \in DOMAIN service.replies
    /\ service.replies[i] = Pending
    /\ service' = [service EXCEPT !.replies[i] = r]
    /\ UNCHANGED <<canvasVars, pointerVars, transform, options, uploadedObject,
                   ghostVars, listVars, viewVars, loadVars, triggerVars,
                   generateVars, designHistory, calls>>

\* Promise.all resolves once every request has settled.
AllSettled ==
    /\ service.phase = "pending"
    /\ \A i \in DOMAIN service.replies : service.replies[i] # Pending
    /\ LET resultsWithNulls ==
              [i \in DOMAIN service.replies |->
                  GenerateSingleDesign(service.replies[i])]
           end == Settle(FilterResults(resultsWithNulls))
       IN  service' = [service EXCEPT !.phase = end.phase,
                          !.results = end.results, !.message = end.message]
    /\ UNCHANGED <<canvasVars, pointerVars, transform, options, uploadedObject,
                   ghostVars, listVars, viewVars, loadVars, triggerVars,
                   generateVars, designHistory, calls>>

NextService ==
    \/ \E apiKey \in BOOLEAN : VisualizeDesign(apiKey)
    \/ \E i \in 1..numberOfImagesToGenerate, r \in Settlements : RequestSettles(i, r)
    \/ AllSettled

SpecService == Init /\ [][NextService]_vars

(***************************************************************************)
(* handleGenerate: the request to the generation service is in flight while *)
(* isLoading holds; the button is disabled meanwhile. A result becomes the *)
(* active image; its url is a new one.                                     *)
(***************************************************************************)
Prompts == {"add a sofa"}

\* handleGenerate that does not look at the data url of the canvas.
GenerateOutcomeWithoutImageCheck(dataUrl, prompt) ==
    IF prompt = "" THEN "Please enter a prompt." ELSE "call"

\* What handleGenerate does before it calls the service.
GenerateOutcome(dataUrl, prompt) ==
    IF dataUrl = {} THEN "Could not get image data from the canvas."
    ELSE IF prompt = "" THEN "Please enter a prompt."
    ELSE "call"

\* The call of visualizeDesign keeps activeImageUrl of the render that
\* issued it as the inputImageUrl of its iteration.
HandleGenerate(prompt) ==
    /\ ~isLoading
    /\ IF GenerateOutcome(GetCombinedDataUrl, prompt) = "call"
       THEN /\ isLoading' = TRUE
            /\ error' = "none"
            /\ calls' = Append(calls, [prompt |-> prompt,
                                       inputImageUrl |-> activeImageUrl])
       ELSE /\ error' = GenerateOutcome(GetCombinedDataUrl, prompt)
            /\ UNCHANGED <<isLoading, calls>>
    /\ UNCHANGED <<canvasVars, pointerVars, transform, options, uploadedObject,
                   ghostVars, listVars, viewVars, loadVars, triggerVars,
                   service, designHistory>>

\* The calls without the k-th.
SettleCall(k) == SubSeq(calls, 1, k - 1) \o SubSeq(calls, k + 1, Len(calls))

\* What visualizeDesign can return: one or two results with distinct urls.
ResultLists ==
    {<<[imageUrl |-> u]>> : u \in ResultImages} \cup
    {rs \in {<<[imageUrl |-> u], [imageUrl |-> v]>> :
                u \in ResultImages, v \in ResultImages} :
        rs[1] # rs[2]}

\* The messages visualizeDesign fails with.
ServiceMessages ==
    {"API_KEY environment variable is not set.", "The API did not return any images."}

\* The k-th outstanding call resolves with results: the iteration is appended,
\* the first result becomes the active image. Its url is a new one.
GenerateSucceeded(k, results) ==
    /\ k \in DOMAIN calls
    /\ results[1].imageUrl # activeImageUrl
    /\ designHistory' = Append(designHistory,
                              [prompt |-> calls[k].prompt,
                               inputImageUrl |-> calls[k].inputImageUrl,
                               results |-> results])
    /\ ActivateImage(results[1].imageUrl)
    /\ calls' = SettleCall(k)
    /\ isLoading' = FALSE
    /\ UNCHANGED <<options, error, service>>

\* The k-th outstanding call rejects.
GenerateFailed(k) ==
    /\ k \in DOMAIN calls
    /\ calls' = SettleCall(k)
    /\ isLoading' = FALSE
    /\ error' \in ServiceMessages
    /\ UNCHANGED <<canvasVars, pointerVars, transform, options, uploadedObject,
                   ghostVars, listVars, viewVars, loadVars, triggerVars,
                   service, designHistory>>

(***************************************************************************)
(* The canvas that takes a list of objects (uploadedObjects): its pointer  *)
(* handlers. Objects carry an id; the list is in insertion order.          *)
(***************************************************************************)
ObjectIds == {"a", "b"}

\* add(sourceImage): the new object goes to the end of the list.
ListObjectAdd(id) ==
    /\ baseImage
    /\ \A i \in DOMAIN uploadedObjects : uploadedObjects[i].id # id
    /\ uploadedObjects' =
           Append(uploadedObjects, [id |-> id] @@ DefaultObject("square.png"))
    /\ UNCHANGED <<canvasVars, pointerVars, transform, options, uploadedObject,
                   ghostVars, activeObjectId, viewVars, loadVars, triggerVars,
                   generateVars, sessionVars>>

\* update(id, fields): the object with that id is replaced, the others stay.
UpdateObject(objs, o) ==
    [i \in DOMAIN objs |-> IF objs[i].id = o.id THEN o ELSE objs[i]]

\* handleSize = HANDLE_SIZE / transform.scale / (canvas.width / naturalWidth):
\* -handleSize < d < handleSize, cross-multiplied.
ListWithinHandle(d) ==
    /\ d * transform.scale.n * CanvasW < HANDLE_SIZE * transform.scale.d * NaturalWidth
    /\ d * transform.scale.n * CanvasW > -(HANDLE_SIZE * transform.scale.d * NaturalWidth)

\* The tests of one turn of the loop over the objects.
ObjectHit(o, pos) ==
    IF /\ ListWithinHandle(pos.x - (o.x + o.width))
       /\ ListWithinHandle(pos.y - (o.y + o.height))
    THEN "resize"
    ELSE IF /\ pos.x > o.x /\ pos.x < o.x + o.width
            /\ pos.y > o.y /\ pos.y < o.y + o.height
    THEN "move"
    ELSE "none"

\* The loop started at the first object instead of the last.
RECURSIVE HitFromFirst(_, _, _)
HitFromFirst(objs, i, pos) ==
    LET k == Len(objs) + 1 - i
    IN  IF i = 0 THEN 0
        ELSE IF ObjectHit(objs[k], pos) # "none" THEN k
        ELSE HitFromFirst(objs, i - 1, pos)

\* for (let i = uploadedObjects.length - 1; i >= 0; i--) ... break: the index
\* of the object at which the loop breaks, 0 when it runs to its end.
RECURSIVE HitFrom(_, _, _)
HitFrom(objs, i, pos) ==
    IF i = 0 THEN 0
    ELSE IF ObjectHit(objs[i], pos) # "none" THEN i
    ELSE HitFrom(objs, i - 1, pos)

ListStartInteraction(b, m) ==
    LET pos == GetTransformedCoords(m)
        hit == HitFrom(uploadedObjects, Len(uploadedObjects), pos)
    IN  /\ IF b = 2
           THEN /\ isPanning' = TRUE
                /\ panStart' = m
                /\ UNCHANGED <<isInteracting, interaction, startPos, currentPos, ctx,
                               history, activeObjectId>>
           ELSE /\ uploadedObjects # <<>> => baseImage
                /\ isInteracting' = TRUE
                /\ UNCHANGED <<isPanning, panStart>>
                /\ IF hit # 0
                   THEN LET o == uploadedObjects[hit]
                        IN  /\ interaction' =
                                   IF ObjectHit(o, pos) = "resize"
                                   THEN [type |-> "resize", objectId |-> o.id,
                                         startX |-> 0, startY |-> 0]
                                   ELSE [type |-> "move", objectId |-> o.id,
                                         startX |-> pos.x - o.x,
                                         startY |-> pos.y - o.y]
                            /\ activeObjectId' = {o.id}
                            /\ UNCHANGED <<startPos, currentPos, ctx, history>>
                   ELSE /\ Len(history) < MaxHistory
                        /\ activeObjectId' = {}
                        /\ interaction' = [type |-> "draw", startX |-> 0, startY |-> 0]
                        /\ startPos' = {pos}
                        /\ currentPos' = {pos}
                        /\ IF baseImage /\ options.mode \in {"BRUSH", "ERASER"}
                           THEN /\ history' = SaveToHistory(history, surface)
                                /\ ctx' = StartStroke(ctx, pos)
                           ELSE UNCHANGED <<history, ctx>>
        /\ UNCHANGED <<baseImage, surface, transform, options, uploadedObject,
                       uploadedObjects, ghostVars, viewVars, loadVars, triggerVars,
                       generateVars, sessionVars>>

\* uploadedObjects.find(o => o.id === interaction.objectId)
CurrentObject ==
    IF interaction.type \in {"move", "resize"}
    THEN {uploadedObjects[i] : i \in {j \in DOMAIN uploadedObjects :
                                        uploadedObjects[j].id = interaction.objectId}}
    ELSE {}

ListOnInteraction(m) ==
    LET pos == GetTransformedCoords(m)
    IN  /\ IF isPanning
           THEN /\ transform' = Pan(transform, m)
                /\ panStart' = m
                /\ UNCHANGED <<currentPos, uploadedObjects, ctx, surface>>
           ELSE IF ~isInteracting \/ interaction.type = "null"
           THEN UNCHANGED <<transform, panStart, currentPos, uploadedObjects, ctx,
                            surface>>
           ELSE /\ currentPos' = {pos}
                /\ UNCHANGED <<transform, panStart>>
                /\ IF interaction.type = "move" /\ CurrentObject # {}
                   THEN /\ uploadedObjects' =
                               UpdateObject(uploadedObjects,
                                   MoveObject(CHOOSE o \in CurrentObject : TRUE, pos))
                        /\ UNCHANGED <<ctx, surface>>
                   ELSE IF interaction.type = "resize" /\ CurrentObject # {}
                   THEN /\ uploadedObjects' =
                               UpdateObject(uploadedObjects,
                                   ResizeObject(CHOOSE o \in CurrentObject : TRUE, pos))
                        /\ UNCHANGED <<ctx, surface>>
                   ELSE IF /\ interaction.type = "draw"
                           /\ options.mode \in {"BRUSH", "ERASER"}
                           /\ baseImage
                   THEN /\ ctx' = LineTo(ctx, pos)
                        /\ surface' = Stroke(surface, ctx')
                        /\ UNCHANGED uploadedObjects
                   ELSE UNCHANGED <<uploadedObjects, ctx, surface>>
        /\ viewOps' = IF transform' # transform THEN viewOps + 1 ELSE viewOps
        /\ lastViewOp' = IF transform' # transform THEN "pan" ELSE lastViewOp
        /\ UNCHANGED <<baseImage, history, isInteracting, interaction, startPos,
                       isPanning, options, uploadedObject, activeObjectId, ghostVars,
                       activeImageUrl, loadVars, triggerVars, generateVars, sessionVars>>

\* finishInteraction of this canvas saves before it strokes a shape, and
\* keeps the selection.
ListFinishInteraction ==
    /\ IF isPanning
       THEN /\ isPanning' = FALSE
            /\ UNCHANGED <<isInteracting, interaction, startPos, currentPos, ctx,
                           surface, history>>
       ELSE IF ~isInteracting
       THEN UNCHANGED <<isPanning, isInteracting, interaction, startPos, currentPos,
                        ctx, surface, history>>
       ELSE /\ IF interaction.type = "draw"
               THEN /\ ctx' = LeftContext(FinishContext(ctx))
                    /\ surface' = FinishSurface(surface, ctx)
                    /\ history' = IF /\ startPos # {} /\ currentPos # {}
                                     /\ options.mode \in ShapeModes
                                  THEN SaveToHistory(history, surface)
                                  ELSE history
               ELSE UNCHANGED <<ctx, surface, history>>
            /\ isInteracting' = FALSE
            /\ interaction' = NoInteraction
            /\ startPos' = {}
            /\ currentPos' = {}
            /\ UNCHANGED isPanning
    /\ UNCHANGED <<baseImage, transform, panStart, options, uploadedObject,
                   uploadedObjects, activeObjectId, ghostVars, viewVars, loadVars,
                   triggerVars, generateVars, sessionVars>>

\* The screen point at which Spec presses the secondary button.
PanPoint == Pt(36, 18)

(***************************************************************************)
(* Spec: the drawing layer and its history. No object is placed, and the   *)
(* secondary button is pressed and released without moving the pointer.    *)
(***************************************************************************)
Next ==
    \/ ImageLoaded
    \/ \E m \in ScreenPts : StartInteraction(0, m)
    \/ StartInteraction(2, PanPoint)
    \/ \E m \in ScreenPts : OnInteraction(m) /\ (isPanning => m = panStart)
    \/ PointerUp
    \/ PointerLeave
    \/ HandleUndo
    \/ HandleClear
    \/ \E mode \in Modes, color \in Colors : SetOptions(mode, color)

Spec == Init /\ [][Next]_vars

(***************************************************************************)
(* SpecDispatch: the pointer dispatcher with a placed object. Strokes are  *)
(* drawn with the initial options; the secondary button as in Spec.        *)
(***************************************************************************)
NextDispatch ==
    \/ ImageLoaded
    \/ ObjectUpload("square.png")
    \/ ObjectRemove
    \/ \E m \in ScreenPts : StartInteraction(0, m)
    \/ StartInteraction(2, PanPoint)
    \/ \E m \in ScreenPts : OnInteraction(m) /\ (isPanning => m = panStart)
    \/ PointerUp
    \/ PointerLeave

SpecDispatch == Init /\ [][NextDispatch]_vars

(***************************************************************************)
(* SpecObjects: moving and resizing a placed object of either picture.     *)
(* The pointer also reaches the resize handle of the wide object, before   *)
(* and after it is made wider, up to MaxObjectWidth. On the bare canvas    *)
(* the primary button is clicked without moving the pointer, and the       *)
(* secondary button is not pressed.                                        *)
(***************************************************************************)
ObjectPts == {Pt(66, 58), Pt(90, 90), Pt(90, 70), Pt(110, 80)}

NextObjects ==
    \/ ImageLoaded
    \/ \E url \in Pictures : ObjectUpload(url)
    \/ ObjectRemove
    \/ \E m \in ObjectPts : StartInteraction(0, m)
    \/ \E m \in ObjectPts :
          /\ OnInteraction(m)
          /\ ~DrawActive
          /\ \A o \in uploadedObject' : o.width <= MaxObjectWidth
    \/ PointerUp
    \/ PointerLeave

SpecObjects == Init /\ [][NextObjects]_vars

(***************************************************************************)
(* SpecLayers: BRUSH strokes, undo and clear with a placed square object   *)
(* that is moved and resized. The secondary button is not pressed.         *)
(***************************************************************************)
NextLayers ==
    \/ ImageLoaded
    \/ ObjectUpload("square.png")
    \/ ObjectRemove
    \/ \E m \in ScreenPts : StartInteraction(0, m)
    \/ \E m \in ScreenPts : OnInteraction(m)
    \/ PointerUp
    \/ PointerLeave
    \/ HandleUndo
    \/ HandleClear

SpecLayers == Init /\ [][NextLayers]_vars

(***************************************************************************)
(* SpecList: the canvas with a list of objects. Two objects are added,     *)
(* moved and resized up to MaxObjectWidth; on the bare canvas the primary  *)
(* button is clicked without moving the pointer, and the secondary button  *)
(* is not pressed.                                                         *)
(***************************************************************************)
ObjectsFit(objs) == \A i \in DOMAIN objs : objs[i].width <= MaxObjectWidth

NextList ==
    \/ ImageLoaded
    \/ \E id \in ObjectIds : ListObjectAdd(id)
    \/ \E m \in ScreenPts : ListStartInteraction(0, m)
    \/ \E m \in ScreenPts :
          ListOnInteraction(m) /\ ~DrawActive /\ ObjectsFit(uploadedObjects')
    \/ ListFinishInteraction

SpecList == Init /\ [][NextList]_vars

(***************************************************************************)
(* SpecViewport: zoom buttons, wheel, pan and reset on the canvas, and App *)
(* switching the active image. Wheel steps come with the deltaY of         *)
(* WheelDeltas, whose zoom factors are 4, 1.2, 0.5, 0 and -1. At most      *)
(* MaxViewOps zoom, wheel and pan steps change the transform of one        *)
(* mounted canvas.                                                         *)
(***************************************************************************)
ViewPts == {Pt(36, 18), Pt(90, 90)}

WheelDeltas == {-3000, -200, 500, 1000, 2000}

NextViewport ==
    \/ ImageLoaded
    \/ ZoomIn /\ viewOps < MaxViewOps
    \/ ZoomOut /\ viewOps < MaxViewOps
    \/ ResetZoom
    \/ \E m \in ViewPts, deltaY \in WheelDeltas :
          HandleWheel(m, deltaY) /\ viewOps < MaxViewOps
    \/ \E m \in ViewPts : StartInteraction(2, m)
    \/ \E m \in ViewPts : OnInteraction(m) /\ isPanning /\ viewOps < MaxViewOps
    \/ PointerUp
    \/ \E url \in ImageUrls : HandleImageSelect(url)

SpecViewport == Init /\ [][NextViewport]_vars

(***************************************************************************)
(* SpecImages: App switches the active image while base-image loads are in *)
(* flight, and the user draws with the BRUSH on the image that has loaded. *)
(* Every load completes at some time of its own, those of unmounted        *)
(* canvases too. No object is placed.                                      *)
(***************************************************************************)
NextImages ==
    \/ \E l \in imageLoads : ImageLoadDone(l)
    \/ \E url \in ImageUrls : HandleImageSelect(url)
    \/ \E m \in ScreenPts : StartInteraction(0, m)
    \/ \E m \in ScreenPts : OnInteraction(m)
    \/ PointerUp

SpecImages == Init /\ [][NextImages]_vars

(***************************************************************************)
(* SpecUploads: object uploads in their steps (start, placement, decode by *)
(* the canvas), removal of the object, and App switching the active image  *)
(* while uploads are in flight.                                            *)
(***************************************************************************)
NextUploads ==
    \/ ImageLoaded
    \/ \E url \in Pictures : ObjectUploadStart(url)
    \/ \E p \in pendingUploads : ObjectUploadDone(p)
    \/ \E url \in objectLoads : ObjectImageLoaded(url)
    \/ ObjectRemove
    \/ \E url \in ImageUrls : HandleImageSelect(url)

SpecUploads == Init /\ [][NextUploads]_vars

\* Objects whose file read and image decode take time, next to strokes on the
\* loaded image.
NextExport ==
    \/ ImageLoaded
    \/ \E url \in Pictures : ObjectUploadStart(url)
    \/ \E p \in pendingUploads : ObjectUploadDone(p)
    \/ \E url \in objectLoads : ObjectImageLoaded(url)
    \/ ObjectRemove
    \/ \E m \in ScreenPts : StartInteraction(0, m)
    \/ PointerUp

SpecExport == Init /\ [][NextExport]_vars

\* Zoom and pan next to brush strokes, lines with their preview and a placed
\* object that stays where it was placed.
NextPreview ==
    \/ ImageLoaded
    \/ ObjectUpload("square.png")
    \/ \E color \in Colors : SetOptions("LINE", color)
    \/ ZoomIn /\ viewOps < MaxPreviewOps
    \/ \E m \in ViewPts : StartInteraction(0, m)
    \/ StartInteraction(2, PanPoint)
    \/ \E m \in ViewPts :
          /\ OnInteraction(m)
          /\ transform' # transform => viewOps < MaxPreviewOps
          /\ uploadedObject' = uploadedObject
    \/ PointerUp

SpecPreview == Init /\ [][NextPreview]_vars

\* The undo and clear buttons of the toolbar next to strokes and switches of
\* the active image, which re-create the canvas.
NextTriggers ==
    \/ \E l \in imageLoads : ImageLoadDone(l)
    \/ OnUndo
    \/ OnClear
    \/ \E url \in ImageUrls :
          /\ HandleImageSelect(url)
          /\ undoCalls <= MaxTriggers /\ clearCalls <= MaxTriggers
    \/ \E m \in ScreenPts : StartInteraction(0, m)
    \/ PointerUp

SpecTriggers == Init /\ [][NextTriggers]_vars

\* Object uploads and object image decodes that complete or fail.
NextDecode ==
    \/ ImageLoaded
    \/ \E url \in Pictures : ObjectUploadStart(url)
    \/ \E p \in pendingUploads : ObjectUploadDone(p)
    \/ \E p \in pendingUploads : ObjectUploadFailed(p)
    \/ \E url \in objectLoads : ObjectImageLoaded(url)
    \/ \E url \in objectLoads : ObjectImageFailed(url)
    \/ ObjectRemove
    \/ \E m \in ScreenPts : StartInteraction(0, m)
    \/ PointerUp
    \/ HandleUndo
    \/ HandleClear

SpecDecode == Init /\ [][NextDecode]_vars

\* Pan gestures whose pointer-moves are handled one per render or two per
\* render, next to brush strokes.
NextPan ==
    \/ ImageLoaded
    \/ \E m \in ViewPts : StartInteraction(2, m)
    \/ \E m \in ViewPts : OnInteraction(m) /\ viewOps < MaxViewOps
    \/ \E m1, m2 \in ViewPts :
          PanMovesBeforeRender(m1, m2) /\ viewOps < MaxViewOps
    \/ StartInteraction(0, PanPoint)
    \/ PointerUp

SpecPan == Init /\ [][NextPan]_vars

\* A session of App: images are selected, generated, picked from the design
\* history and reset while calls of the service are outstanding. The generate
\* button needs a selected image.
NextSession ==
    \/ \E l \in imageLoads : ImageLoadDone(l)
    \/ \E url \in ImageUrls \ {activeImageUrl} : HandleImageSelect(url)
    \/ ObjectUpload("square.png") /\ baseImage
    \/ \E prompt \in Prompts :
          /\ HandleGenerate(prompt)
          /\ activeImageUrl # NoImage
          /\ Len(designHistory) + Len(calls) < MaxIterations
    \/ \E k \in DOMAIN calls, results \in ResultLists : GenerateSucceeded(k, results)
    \/ \E k \in DOMAIN calls : GenerateFailed(k)
    \/ \E i \in 0..MaxIterations, r \in 0..numberOfImagesToGenerate :
          HandleSelectHistoryItem(i, r)
    \/ HandleReset

SpecSession == Init /\ [][NextSession]_vars

\* Iterations are generated and results picked from the design history, with
\* an object placed or not.
NextHistory ==
    \/ ImageLoaded
    \/ ObjectUpload("square.png") /\ baseImage
    \/ \E prompt \in Prompts :
          /\ HandleGenerate(prompt)
          /\ Len(designHistory) + Len(calls) < MaxIterations
    \/ \E k \in DOMAIN calls, results \in ResultLists : GenerateSucceeded(k, results)
    \/ \E i \in 0..MaxIterations, r \in 0..numberOfImagesToGenerate :
          HandleSelectHistoryItem(i, r)

SpecHistory == Init /\ [][NextHistory]_vars

\* Generation requests next to image loads, image switches and drawing.
NextGenerate ==
    \/ \E l \in imageLoads : ImageLoadDone(l)
    \/ \E prompt \in Prompts :
          HandleGenerate(prompt) /\ Len(designHistory) < MaxIterations
    \/ \E k \in DOMAIN calls, results \in ResultLists : GenerateSucceeded(k, results)
    \/ \E k \in DOMAIN calls : GenerateFailed(k)
    \/ \E url \in ImageUrls : SetActiveImage(url)
    \/ \E m \in ScreenPts : StartInteraction(0, m)
    \/ PointerUp

SpecGenerate == Init /\ [][NextGenerate]_vars

(***************************************************************************)
(* Properties.                                                             *)
(***************************************************************************)
Idle ==
    /\ ~isPanning
    /\ ~isInteracting
    /\ interaction = NoInteraction
    /\ startPos = {}
    /\ currentPos = {}

IsPointerDown == \E b \in {0, 2}, m \in ScreenPts : StartInteraction(b, m)

IsPointerMove == \E m \in ScreenPts : OnInteraction(m)

LastEntry(h) == h[Len(h)]

\* C1: after completed strokes on a loaded image, one undo leaves the
\* drawing canvas as it was immediately before the most recent completed
\* stroke began; only the last stroke is removed.  gestureStart holds that
\* canvas as long as the stroke is the last thing done to the canvas and
\* no undo or clear fell into its gesture.
UndoRestoresPreStroke ==
    [][(HandleUndo /\ baseImage /\ ~DrawActive /\ gestureStart # {})
        => (history # <<>> /\ {surface'} = gestureStart)]_vars

\* Two strokes were completed and one undo left the first stroke in place.
UndoRestoresPreStrokeWitness ==
    /\ baseImage
    /\ strokes = 2 /\ undos = 1 /\ ~mixed
    /\ Len(history) = 1
    /\ surface = history[1]
    /\ surface # Blank

\* C2: whenever no gesture is in progress and the history is not empty, its
\* last entry equals the drawing canvas.
LastEntryIsSurface ==
    (~isInteracting /\ ~isPanning /\ history # <<>>) => LastEntry(history) = surface

\* C3: after N completed draw gestures since the image loaded or the canvas
\* was cleared, and no undo, the history holds N entries, in every mode.
HistoryCountsStrokes ==
    (baseImage /\ ~mixed /\ undos = 0) => Len(history) = strokes

\* Two gestures were completed, the last one a shape.
HistoryCountsStrokesWitness ==
    /\ baseImage /\ ~mixed /\ undos = 0
    /\ strokes = 2
    /\ ~isInteracting
    /\ options.mode \in ShapeModes
    /\ surface # Blank

\* C4: after N completed strokes the N-th undo, and no earlier one, empties
\* the history, and it leaves the drawing canvas blank.
UndoAllRestoresBlank ==
    [][(HandleUndo /\ baseImage /\ ~mixed /\ undos < strokes)
        => /\ Len(history') = strokes - (undos + 1)
           /\ (undos + 1 = strokes) => (history' = <<>> /\ surface' = Blank)
           /\ (undos + 1 < strokes) => history' # <<>>]_vars

\* Two strokes were completed and undone.
UndoAllRestoresBlankWitness ==
    /\ baseImage /\ ~mixed
    /\ strokes = 2 /\ undos = 2
    /\ history = <<>>
    /\ surface = Blank

\* C5: undo with an empty history changes neither the drawing canvas nor
\* the history, also while a gesture is in progress.
UndoOnEmptyIsNoOp ==
    [][(HandleUndo /\ history = <<>>)
        => (surface' = surface /\ history' = history)]_vars

\* C6: clear on a loaded image empties the history and blanks the drawing
\* canvas, which stays blank until the next pointer-down.
ClearBlankUntilPointerDown ==
    [][/\ (HandleClear /\ baseImage) => (history' = <<>> /\ surface' = Blank)
       /\ clearedAt' # "no" => surface' = Blank]_vars

ShapeCover(mode, a, b) ==
    CASE mode = "LINE" -> SegCover(a, b)
      [] mode = "RECTANGLE" -> RectCover(a, b)
      [] mode = "CIRCLE" -> CircleCover(a, Dist2(a, b))

\* C8: in a LINE, RECTANGLE or CIRCLE gesture pointer-down and pointer-move
\* leave the drawing canvas and the history alone, every pointer-move is
\* the last position observed, and pointer-up or pointer-leave writes the
\* shape from the start point to that position and ends the gesture.
ShapeCommittedAtPointerUp ==
    [][(baseImage /\ DrawActive /\ options.mode \in ShapeModes)
        => /\ (IsPointerDown \/ IsPointerMove)
                => (surface' = surface /\ history' = history)
           /\ \A m \in ScreenPts :
                OnInteraction(m) => currentPos' = {GetTransformedCoords(m)}
           /\ FinishInteraction
                => /\ ~DrawActive'
                   /\ \E a \in startPos, b \in currentPos :
                        surface' = [s \in Samples |->
                                      IF s \in ShapeCover(options.mode, a, b)
                                      THEN options.color
                                      ELSE surface[s]]]_vars

\* C9: every pointer-up or pointer-leave leaves the dispatcher idle, and
\* pointer-moves of an idle dispatcher change nothing.
PointerUpForcesIdle ==
    [][/\ FinishInteraction => Idle'
       /\ (Idle /\ IsPointerMove) => UNCHANGED vars]_vars

programVars == <<canvasVars, pointerVars, transform, options, uploadedObject>>

\* C11: a pointer-up or pointer-leave while neither an interaction nor a pan
\* is active changes nothing: drawing canvas, history, object, viewport
\* transform and interaction state stay as they are.
PointerUpWhenIdleIsNoOp ==
    [][(FinishInteraction /\ ~isInteracting /\ ~isPanning)
        => UNCHANGED programVars]_vars

\* The dispatcher is idle with paint on the canvas, a snapshot in the
\* history and an object that was moved or resized.
PointerUpWhenIdleWitness ==
    /\ Idle
    /\ baseImage
    /\ surface # Blank
    /\ history # <<>>
    /\ uploadedObject # {}
    /\ uploadedObject # {DefaultObject("square.png")}

\* The indices of the objects a pointer position hits, on the handle or
\* inside the bounding box.
HitIndices(pos) ==
    {i \in DOMAIN uploadedObjects : ObjectHit(uploadedObjects[i], pos) # "none"}

\* C12: a primary-button pointer-down that hits several objects selects the
\* one latest in insertion order among those hit, and the pointer-moves of
\* an object gesture leave every other object as it is.
LatestHitObjectSelected ==
    [][/\ \A m \in ScreenPts :
            (ListStartInteraction(0, m) /\ HitIndices(GetTransformedCoords(m)) # {})
                => LET hits == HitIndices(GetTransformedCoords(m))
                       top == CHOOSE i \in hits : \A j \in hits : j <= i
                   IN  /\ interaction'.type \in {"move", "resize"}
                       /\ interaction'.objectId = uploadedObjects[top].id
                       /\ activeObjectId' = {uploadedObjects[top].id}
                       /\ uploadedObjects' = uploadedObjects
       /\ \A m \in ScreenPts :
            (ListOnInteraction(m) /\ interaction.type \in {"move", "resize"})
                => /\ DOMAIN uploadedObjects' = DOMAIN uploadedObjects
                   /\ \A i \in DOMAIN uploadedObjects :
                        uploadedObjects[i].id # interaction.objectId
                            => uploadedObjects'[i] = uploadedObjects[i]]_vars

\* The pointer went down where two objects at different places overlap and
\* the later one is being moved.
LatestHitObjectSelectedWitness ==
    /\ Len(uploadedObjects) = 2
    /\ isInteracting
    /\ interaction.type = "move"
    /\ currentPos = {}
    /\ interaction.objectId = uploadedObjects[2].id
    /\ uploadedObjects[1].x # uploadedObjects[2].x
    /\ ObjectHit(uploadedObjects[1],
                 Pt(uploadedObjects[2].x + interaction.startX,
                    uploadedObjects[2].y + interaction.startY)) # "none"

\* C13: after any resize pointer-moves, in one gesture or several, the
\* height / width ratio of the object is the ratio it was added with, that
\* of its picture.
ResizeKeepsAspectRatio ==
    uploadedObject # {}
        => Obj.height * PictureWidth(Obj.imageUrl)
             = Obj.width * PictureHeight(Obj.imageUrl)

\* The wide object has been resized and a second resize gesture is on.
ResizeKeepsAspectRatioWitness ==
    /\ uploadedObject # {}
    /\ Obj.imageUrl = "wide.png"
    /\ Obj.width # DefaultObject("wide.png").width
    /\ isInteracting
    /\ interaction.type = "resize"
    /\ currentPos = {}

\* C14: a resize pointer-move leaves x and y of the object as they are and
\* sets its width to the larger of pointerX - x and 2 * HANDLE_SIZE, so the
\* width never falls below that minimum.
ResizeAnchoredAndClamped ==
    [][\A m \in ObjectPts :
        (OnInteraction(m) /\ ~isPanning /\ isInteracting
            /\ interaction.type = "resize" /\ uploadedObject # {})
        => LET pos == GetTransformedCoords(m)
               o == Obj
               n == CHOOSE q \in uploadedObject' : TRUE
           IN  /\ uploadedObject' # {}
               /\ n.x = o.x /\ n.y = o.y
               /\ n.width = (IF pos.x - o.x > 2 * HANDLE_SIZE
                             THEN pos.x - o.x ELSE 2 * HANDLE_SIZE)
               /\ n.width >= 2 * HANDLE_SIZE]_vars

\* A resize with the pointer left of the origin of the object.
ResizeAnchoredAndClampedWitness ==
    /\ uploadedObject # {}
    /\ isInteracting
    /\ interaction.type = "resize"
    /\ \E pos \in currentPos : pos.x < Obj.x
    /\ Obj.width = 2 * HANDLE_SIZE

\* C15: in a move gesture the offset captured at pointer-down is that of
\* the pointer from the origin of the object, and after every pointer-move
\* the pointer is at that offset from the origin again, with the width and
\* height of the object unchanged.
MoveKeepsPointerOffset ==
    [][/\ \A m \in ObjectPts :
            (StartInteraction(0, m) /\ interaction'.type = "move")
                => LET pos == GetTransformedCoords(m)
                   IN  /\ interaction'.startX = pos.x - Obj.x
                       /\ interaction'.startY = pos.y - Obj.y
       /\ \A m \in ObjectPts :
            (OnInteraction(m) /\ ~isPanning /\ isInteracting
                /\ interaction.type = "move" /\ uploadedObject # {})
                => LET pos == GetTransformedCoords(m)
                       o == Obj
                       n == CHOOSE q \in uploadedObject' : TRUE
                   IN  /\ uploadedObject' # {}
                       /\ pos.x - n.x = interaction.startX
                       /\ pos.y - n.y = interaction.startY
                       /\ n.width = o.width /\ n.height = o.height]_vars

\* The object has been dragged away from where it was placed, by a pointer
\* that did not hold it at its origin.
MoveKeepsPointerOffsetWitness ==
    /\ uploadedObject # {}
    /\ isInteracting
    /\ interaction.type = "move"
    /\ interaction.startX > 0
    /\ Obj.x # DefaultObject(Obj.imageUrl).x
    /\ \E pos \in currentPos : pos.x - Obj.x = interaction.startX

\* C16: in every reachable state the scale of the viewport is at least 0.25
\* and at most 4, whatever zoom button, wheel (also with a zoom factor of
\* zero or below), pan and reset steps came before.
ScaleWithinLimits ==
    /\ ~QLess(transform.scale, MIN_ZOOM)
    /\ ~QLess(MAX_ZOOM, transform.scale)

\* One wheel step with a zoom factor of zero or below took the scale from 1
\* to the lower limit.
ScaleWithinLimitsWitness ==
    /\ lastViewOp = "wheel"
    /\ viewOps = 1
    /\ transform.scale = MIN_ZOOM

\* The point of the image under the mouse: (mouse - offset) / scale.
WorldPoint(m, t) ==
    [x |-> QDiv(QSub(QInt(m.x), t.offsetX), t.scale),
     y |-> QDiv(QSub(QInt(m.y), t.offsetY), t.scale)]

\* C17: every wheel step, also one whose new scale is cut to 0.25 or 4,
\* leaves the point of the image under the mouse where it was:
\* (mouse - offset) / scale is the same before and after the step.
WheelZoomsAtCursor ==
    [][transform' # transform
        => \A m \in ViewPts, deltaY \in WheelDeltas :
             HandleWheel(m, deltaY)
                 => WorldPoint(m, transform') = WorldPoint(m, transform)]_vars

\* A wheel step away from the origin, with no pan before it, whose new
\* scale was cut to the upper limit.
WheelZoomsAtCursorWitness ==
    /\ lastViewOp = "wheel"
    /\ viewOps = 2
    /\ panStart = Pt(0, 0)
    /\ transform.scale = MAX_ZOOM
    /\ transform.offsetX # QInt(0)

\* C18: resetZoom leaves the transform at scale 1 and offsets 0, whatever
\* zoom, wheel and pan steps came before.
ResetZoomRestoresInitial ==
    [][ResetZoom => transform' = InitialTransform]_vars

\* A reset after at least two steps that changed the transform.
ResetZoomRestoresInitialWitness ==
    /\ lastViewOp = "reset"
    /\ viewOps >= 3
    /\ transform = InitialTransform

\* C19: whenever the active image is switched, the transform of the canvas
\* that shows the new image is scale 1 and offsets 0.
SwitchImageResetsTransform ==
    [][activeImageUrl' # activeImageUrl => transform' = InitialTransform]_vars

\* The image was switched while the viewport was zoomed or panned.
SwitchImageResetsTransformWitness ==
    /\ lastViewOp = "mount"
    /\ activeImageUrl = "result.png"
    /\ transform = InitialTransform
    /\ viewOps = 0

ObjectGestureActive == isInteracting /\ interaction.type \in {"move", "resize"}

\* C20: undo, clear and every step of a draw gesture (pointer-down, moves,
\* pointer-up or leave) leave the placed object, its position and its size
\* as they are; every step of a move or resize gesture leaves the drawing
\* canvas and the history as they are. Stated the other way round: a step
\* that changes the object is none of the former, a step that changes the
\* drawing canvas or the history none of the latter.
LayersAreIndependent ==
    [][/\ uploadedObject' # uploadedObject
            => /\ ~(HandleUndo \/ HandleClear)
               /\ ~\E m \in ScreenPts :
                     StartInteraction(0, m) /\ interaction'.type = "draw"
               /\ ~(/\ DrawActive
                    /\ FinishInteraction \/ \E m \in ScreenPts : OnInteraction(m))
       /\ <<surface, history>>' # <<surface, history>>
            => /\ ~\E m \in ScreenPts :
                     /\ StartInteraction(0, m)
                     /\ interaction'.type \in {"move", "resize"}
               /\ ~(/\ ObjectGestureActive
                    /\ FinishInteraction \/ \E m \in ScreenPts : OnInteraction(m))]_vars

\* Paint and one snapshot lie beside an object that gestures have moved
\* and resized.
LayersAreIndependentWitness ==
    /\ Idle
    /\ surface # Blank
    /\ Len(history) = 1
    /\ uploadedObject # {}
    /\ Obj.width # DefaultObject("square.png").width
    /\ Obj.x # DefaultObject("square.png").x

LoadCreatesSurface ==
    [][baseImage'
        => /\ baseImageSrc' # {}
           /\ \A src \in baseImageSrc' :
                drawingCanvasSize' =
                    {[width |-> NaturalWidth, height |-> NaturalHeight(src)]}
           /\ ~baseImage => surface' = Blank /\ history' = <<>>]_vars

\* The second image has loaded, at its own size, and has been drawn on.
LoadCreatesSurfaceWitness ==
    /\ baseImage
    /\ baseImageSrc = {"result.png"}
    /\ drawingCanvasSize = {[width |-> 160, height |-> 90]}
    /\ surface # Blank
    /\ history # <<>>

\* C23: a base-image load that completes after the source has been switched
\* to another image is discarded: it sets no baseImage, replaces no drawing
\* canvas and resets no history, so the base image is always that of the
\* active source.
StaleLoadDiscarded ==
    [][/\ \A l \in imageLoads :
            (l.src # activeImageUrl /\ ImageLoadDone(l))
                => UNCHANGED <<baseImage, baseImageSrc, drawingCanvasSize,
                               surface, history>>
       /\ baseImage' => baseImageSrc' = {activeImageUrl'}]_vars

\* The load of an image that is no longer shown has just completed, with
\* paint on the image shown and a snapshot in its history.
StaleLoadDiscardedWitness ==
    /\ discarded
    /\ \A l \in imageLoads : l.live
    /\ baseImage
    /\ surface # Blank
    /\ history # <<>>

NoExportWithoutBaseImage ==
    [][~baseImage =>
        /\ GetCombinedDataUrl = {}
        /\ GetMaskDataUrl = {}
        /\ \A prompt \in Prompts :
              HandleGenerate(prompt) =>
                  /\ error' = "Could not get image data from the canvas."
                  /\ ~isLoading']_vars

\* A generation request was refused on a canvas re-created for a result whose
\* image has not loaded yet.
NoExportWithoutBaseImageWitness ==
    /\ ~baseImage
    /\ activeImageUrl = "result.png"
    /\ error = "Could not get image data from the canvas."
    /\ ~isLoading

\* C26: getMaskDataUrl returns the absent value whenever the history is
\* empty, returns a mask whenever a base image is loaded and the history is
\* not empty, and hasDrawings holds exactly when the history is not empty.
MaskFollowsHistory ==
    /\ history = <<>> => GetMaskDataUrl = {}
    /\ (baseImage /\ history # <<>>) => GetMaskDataUrl # {}
    /\ HasDrawings <=> history # <<>>

\* A stroke in progress has painted the drawing canvas while the history is
\* still empty.
MaskFollowsHistoryWitness ==
    /\ baseImage
    /\ history = <<>>
    /\ surface # Blank
    /\ GetMaskDataUrl = {}

\* The raster of the mask, when one is returned.
Mask == CHOOSE mask \in GetMaskDataUrl : TRUE

\* C27: in the mask, a pixel is opaque white exactly where the drawing canvas
\* is painted and opaque black everywhere else.
MaskMarksPaintedPixels ==
    GetMaskDataUrl # {} =>
        \A s \in Samples :
            Mask.pixels[s] = IF surface[s] # Transparent
                             THEN PaintPixel("white")
                             ELSE PaintPixel("black")

\* The decode of the image of the placed object has completed.
ObjectImageReady == uploadedObject # {} /\ Obj.imageUrl \notin objectLoads

\* The raster of the combined export, when one is returned.
Combined == CHOOSE raster \in GetCombinedDataUrl : TRUE

\* C28: the combined export has the natural size of the base image, and each
\* pixel is that of the placed object where its loaded image covers the
\* pixel, else the paint of the drawing canvas, else the base image.
CombinedIsTopmostLayer ==
    baseImage =>
        /\ GetCombinedDataUrl # {}
        /\ Combined.size = [width |-> NaturalWidth,
                            height |-> NaturalHeight(activeImageUrl)]
        /\ \A s \in Samples :
              Combined.pixels[s] =
                  IF ObjectImageReady /\ ObjectCovers(Obj, s)
                  THEN ObjectPixel(Obj.imageUrl)
                  ELSE IF surface[s] # Transparent
                  THEN PaintPixel(surface[s])
                  ELSE BasePixel(activeImageUrl)

\* A step of the zoom controls, the wheel or a pan, or a pointer move that
\* only updates the preview of a shape.
ViewOrPreviewStep ==
    \/ ZoomIn
    \/ ZoomOut
    \/ ResetZoom
    \/ \E m \in ViewPts, deltaY \in WheelDeltas : HandleWheel(m, deltaY)
    \/ StartInteraction(2, PanPoint)
    \/ \E m \in ViewPts :
          /\ OnInteraction(m)
          /\ isPanning \/ (DrawActive /\ options.mode \in ShapeModes)

\* C29: pan, zoom and the preview of a shape in progress never change the
\* combined export or the mask.
ExportsIgnoreViewAndPreview ==
    [][(\/ GetCombinedDataUrl' # GetCombinedDataUrl
        \/ GetMaskDataUrl' # GetMaskDataUrl) => ~ViewOrPreviewStep]_vars

\* Zoomed in, with a stroke in the history and a placed object, the preview of
\* a line is in progress: both exports are returned.
ExportsIgnoreViewAndPreviewWitness ==
    /\ lastViewOp \in {"zoomIn", "wheel", "pan"}
    /\ transform.scale # Frac(1, 1)
    /\ DrawActive /\ options.mode = "LINE"
    /\ currentPos # {} /\ currentPos # startPos
    /\ uploadedObject # {}
    /\ GetCombinedDataUrl # {}
    /\ GetMaskDataUrl # {}

\* C30: every undo and every clear trigger of the toolbar has caused exactly
\* one run of handleUndo or handleClear, also after the canvas was re-created
\* for another active image.
TriggersConsumedOnce ==
    /\ undoCalls = undoTrigger
    /\ clearCalls = clearTrigger

\* The requests of the call under study that settled with an image.
ImageBearing ==
    {i \in DOMAIN service.replies :
        /\ service.replies[i].kind = "response"
        /\ service.replies[i].candidates
        /\ service.replies[i].image # {}}

\* C31: visualizeDesign fails or returns a non-empty list of results that
\* each carry an image url. Without credentials it fails before any request;
\* it returns one result per request that yielded an image, also when the
\* other request threw; it fails when no request yielded an image.
ServiceFailsOrReturnsImages ==
    /\ service.phase = "returned" =>
          /\ Len(service.results) > 0
          /\ Len(service.results) = Cardinality(ImageBearing)
          /\ \A k \in DOMAIN service.results :
                service.results[k].imageUrl \in ResultImages
          /\ \A i \in ImageBearing :
                \E k \in DOMAIN service.results :
                    {service.results[k].imageUrl} = service.replies[i].image
    /\ service.phase = "failed" =>
          /\ service.results = <<>>
          /\ ImageBearing = {}
          /\ service.requests = 0 <=>
                service.message = "API_KEY environment variable is not set."

\* One request threw, the other yielded an image: the call returned one result.
ServiceFailsOrReturnsImagesWitness ==
    /\ service.phase = "returned"
    /\ Len(service.results) = 1
    /\ \E i \in DOMAIN service.replies : service.replies[i] = Throws

\* C32: for the transform of every reachable state and every ratio of
\* display to natural size, a screen point mapped to image space and back
\* through the rendering transform is the screen point itself.
ScreenImageRoundTrip ==
    \A m \in ViewPts, f \in ImageScales :
        /\ ScreenSpaceCoord(
               ImageSpaceCoord(m.x, transform.offsetX, transform.scale, f),
               transform.offsetX, transform.scale, f) = QInt(m.x)
        /\ ScreenSpaceCoord(
               ImageSpaceCoord(m.y, transform.offsetY, transform.scale, f),
               transform.offsetY, transform.scale, f) = QInt(m.y)

\* A wheel step has left a scale other than 1 and offsets other than 0.
ScreenImageRoundTripWitness ==
    /\ lastViewOp = "wheel"
    /\ transform.scale # QInt(1)
    /\ transform.offsetX # QInt(0)
    /\ transform.offsetY # QInt(0)
    /\ ImageSpaceCoord(90, transform.offsetX, transform.scale, Frac(5, 4)) # QInt(90)

\* Screen points on and around the pointer positions of the object canvas.
HandleProbes ==
    {Pt(p.x + dx, p.y + dy) : p \in ObjectPts, dx \in {-4, 0, 4}, dy \in {-4, 0, 4}}

\* |a - b| <= h for fractions a, b and h.
QWithin(a, b, h) == ~QLess(h, QSub(a, b)) /\ ~QLess(h, QSub(b, a))

\* The screen point m lies on the handle square drawObjectHandles draws:
\* centred on the bottom-right corner, HANDLE_SIZE wide on the screen.
OnDrawnHandle(m) ==
    LET f == Frac(ImageScaleNum, ImageScaleDen)
        cx == ScreenSpaceCoord(QInt(Obj.x + Obj.width), transform.offsetX,
                               transform.scale, f)
        cy == ScreenSpaceCoord(QInt(Obj.y + Obj.height), transform.offsetY,
                               transform.scale, f)
    IN  /\ uploadedObject # {}
        /\ QWithin(QInt(m.x), cx, Frac(HANDLE_SIZE, 2))
        /\ QWithin(QInt(m.y), cy, Frac(HANDLE_SIZE, 2))

\* C33: every screen point of the drawn handle square lies in the resize hit
\* region, so a primary pointer-down on the visible handle starts a resize.
VisibleHandleStartsResize ==
    (baseImage /\ uploadedObject # {}) =>
        \A m \in HandleProbes :
            OnDrawnHandle(m) => Classify(0, GetTransformedCoords(m)) = "resize"

\* C34: when the decode of the image of the placed object fails, that object
\* is not exported (nor rendered): the combined export has no object pixel.
FailedImageIsOmitted ==
    [][\A url \in objectLoads :
          (/\ ObjectImageFailed(url)
           /\ baseImage
           /\ uploadedObject # {}
           /\ Obj.imageUrl = url)
          => \A s \in Samples : ObjectLayerPixel(s)' = TransparentPixel]_vars

\* C35: at most one interaction is active: never a pan together with a draw,
\* move or resize interaction.
AtMostOneInteraction ==
    ~(/\ isPanning
      /\ isInteracting
      /\ interaction.type \in {"draw", "move", "resize"})

\* C36: whenever getMaskDataUrl returns a mask, the drawing canvas has at
\* least one painted pixel.
MaskImpliesPaint == GetMaskDataUrl # {} => surface # Blank

\* C37: every pointer-move of a pan changes the offset by the displacement
\* of the pointer since the last position the pan has accounted for, so that
\* over the gesture the offset changes by the displacement since the
\* pointer-down; the scale, the drawing canvas, the history and the object
\* stay as they are. This holds for moves handled before a re-render too.
PanFollowsPointer ==
    [][(isPanning /\ isPanning' /\ viewOps' = viewOps + 1 /\ lastViewOp' = "pan") =>
        /\ QSub(transform'.offsetX, QInt(panStart'.x))
              = QSub(transform.offsetX, QInt(panStart.x))
        /\ QSub(transform'.offsetY, QInt(panStart'.y))
              = QSub(transform.offsetY, QInt(panStart.y))
        /\ transform'.scale = transform.scale
        /\ UNCHANGED <<surface, history, uploadedObject>>]_vars

\* C38: the result of a call issued for another image than the active one is
\* not applied: it neither becomes the active image nor enters the design
\* history.
LateResultNotApplied ==
    [][\A k \in DOMAIN calls, results \in ResultLists :
          (/\ calls[k].inputImageUrl # activeImageUrl
           /\ GenerateSucceeded(k, results))
          => /\ activeImageUrl' = activeImageUrl
             /\ designHistory' = designHistory]_vars

\* C39: at most one call of the generation service is outstanding.
AtMostOneCall == Len(calls) <= 1

\* C40: selecting result r of iteration i makes its image the active image,
\* leaves exactly the first i + 1 iterations and clears the placed object;
\* selecting an item that does not exist changes nothing.
SelectHistoryItemTruncates ==
    [][\A i \in 0..MaxIterations, r \in 0..numberOfImagesToGenerate :
          HandleSelectHistoryItem(i, r) =>
              IF HistoryItemExists(i, r)
              THEN /\ activeImageUrl' = designHistory[i + 1].results[r + 1].imageUrl
                   /\ Len(designHistory') = i + 1
                   /\ \A j \in 1..(i + 1) : designHistory'[j] = designHistory[j]
                   /\ uploadedObject' = {}
              ELSE UNCHANGED vars]_vars

\* The second result of the only iteration left is the active image, which
\* only a selection brings about, and no object is placed.
SelectHistoryItemTruncatesWitness ==
    /\ Len(designHistory) = 1
    /\ Len(designHistory[1].results) = 2
    /\ activeImageUrl = designHistory[1].results[2].imageUrl
    /\ uploadedObject = {}
    /\ baseImage

====
